---- MODULE Spec2Model ----
(***************************************************************************)
(* Property Report API (src/main.py): POST /geocode and POST /report.      *)
(*                                                                         *)
(* Three specifications over one set of variables:                         *)
(*   Spec       one request to /geocode or /report: validation, geocoding, *)
(*              the concurrent EPA ECHO / USGS fetches, merge and sort;    *)
(*   SpecNorm   strip_unit applied to every short address;                 *)
(*   SpecParse  the RDB parser of fetch_usgs applied to every short text.  *)
(*                                                                         *)
(* Units: a coordinate is an integer number of tenths of a degree, a       *)
(* distance or a radius an integer number of hundredths of a mile (the     *)
(* code rounds distances to 2 decimals).  Text that the code only compares *)
(* or concatenates is a TLA+ string; text that the code scans character by *)
(* character (an address) is a sequence of one-character strings.          *)
(***************************************************************************)
EXTENDS Integers, Sequences, FiniteSets, TLC

VARIABLES
    pc,              \* position of the request handler
    endpoint,        \* "geocode" or "report"
    address,         \* req.address (a sequence of characters)
    radius_miles,    \* req.radius_miles, hundredths of a mile
    cleaned,         \* strip_unit(address)
    provider_called, \* whether the geocoding provider was sent a request
    geo_kind,        \* what the geocoding provider answered
    geo_hits,        \* the hits the geocoding provider returned
    geo,             \* <<lat, lon>> of the first hit, or NoGeo
    outcome,         \* "none", "geocoded", "report" or an HTTP error status
    epa_state,       \* fetch_epa_echo: "idle", "waiting", "done", "raised"
    usgs_state,      \* fetch_usgs:     "idle", "waiting", "done", "raised"
    epa_args,        \* (lat, lon, radius_miles) fetch_epa_echo was called with
    usgs_args,       \* (lat, lon, radius_miles) fetch_usgs was called with
    epa_kind,        \* what the ECHO provider answered
    usgs_kind,       \* what the USGS provider answered
    epa_results,     \* list returned by fetch_epa_echo
    usgs_results,    \* list returned by fetch_usgs
    first_done,      \* which fetch completed first
    all_raw,         \* report(): epa_results + usgs_results
    seen_ids,        \* report(): the dedup keys seen
    facilities,      \* ReportResponse.facilities
    total_findings,  \* ReportResponse.total_findings
    text             \* fetch_usgs: resp.text.splitlines(), each line split on tabs

vars == <<pc, endpoint, address, radius_miles, cleaned, provider_called, geo_kind,
          geo_hits, geo, outcome, epa_state, usgs_state, epa_args, usgs_args, epa_kind,
          usgs_kind, epa_results, usgs_results, first_done, all_raw, seen_ids,
          facilities, total_findings, text>>

(***************************************************************************)
(* Bounds of the model.                                                    *)
(***************************************************************************)
\* longest address handed to strip_unit in SpecNorm
MaxLen == 5
\* most lines of a USGS response text in SpecParse
MaxLines == 3
\* most raw rows the two providers return together in one request
MaxRaw == 3
\* most hits the geocoding provider returns
MaxHits == 2

\* ReportRequest.radius_miles: Field(gt=0, le=50), in hundredths of a mile
MaxRadius == 5000

\* all sequences over S of length at most n
RECURSIVE SeqsUpTo(_, _)
SeqsUpTo(S, n) ==
    IF n = 0 THEN {<<>>}
    ELSE LET shorter == SeqsUpTo(S, n - 1)
         IN  shorter \cup {Append(s, x) : s \in {t \in shorter : Len(t) = n - 1}, x \in S}

(***************************************************************************)
(* AddressNormalizer: UNIT_PATTERNS and strip_unit.                        *)
(***************************************************************************)
\* the characters addresses are drawn from
Alphabet == {"#", "1", " ", ",", ".", "F", "l"}

IsSpace(c) == c \in {" "}
IsDigit(c) == c \in {"0", "1", "2", "3", "4", "5", "6", "7", "8", "9"}
IsLetter(c) == c \in {"F", "l", "f", "L", "a", "A"}
\* re.IGNORECASE: characters compare by their lower-case form
Lower(c) == CASE c = "F" -> "f" [] c = "L" -> "l" [] c = "A" -> "a" [] OTHER -> c

\* the labels of UNIT_PATTERNS, lower-cased, in the order of the alternation
UnitLabels ==
    << <<"s","u","i","t","e">>, <<"s","t","e">>, <<"u","n","i","t">>, <<"a","p","t">>,
       <<"a","p","a","r","t","m","e","n","t">>, <<"r","o","o","m">>, <<"r","m">>,
       <<"f","l","o","o","r">>, <<"f","l">>, <<"b","l","d","g">>,
       <<"b","u","i","l","d","i","n","g">> >>

\* [.\s:]
IsSepChar(c) == c \in {".", ":"} \/ IsSpace(c)
\* [A-Za-z0-9-]
IsValueChar(c) == IsLetter(c) \/ IsDigit(c) \/ c = "-"

\* the character classes of UNIT_PATTERNS: \s, \d, [.\s:], [A-Za-z0-9-]
InClass(cls, c) ==
    CASE cls = "space" -> IsSpace(c)
      [] cls = "digit" -> IsDigit(c)
      [] cls = "sep"   -> IsSepChar(c)
      [] cls = "value" -> IsValueChar(c)

\* first position >= p of s whose character is not in the class (greedy X*)
RECURSIVE SkipWhile(_, _, _)
SkipWhile(s, p, cls) ==
    IF p <= Len(s) /\ InClass(cls, s[p]) THEN SkipWhile(s, p + 1, cls) ELSE p

\* whether label lab stands at position p of s, case-insensitively
LabelAt(s, p, lab) ==
    /\ p + Len(lab) - 1 <= Len(s)
    /\ \A k \in 1..Len(lab) : Lower(s[p + k - 1]) = lab[k]

\* (?=\s*,|\s*$) at position p
FollowedByCommaOrEnd(s, p) ==
    LET q == SkipWhile(s, p, "space") IN q > Len(s) \/ s[q] = ","

\* \#\s*\d+[A-Za-z]? at position p: the position after it, or 0
HashUnitEnd(s, p) ==
    IF p > Len(s) \/ s[p] # "#" THEN 0
    ELSE LET d == SkipWhile(s, p + 1, "space")
             e == SkipWhile(s, d, "digit")
             f == IF e <= Len(s) /\ IsLetter(s[e]) THEN e + 1 ELSE e
         IN  IF e = d THEN 0
             ELSE IF FollowedByCommaOrEnd(s, f) THEN f
             ELSE IF FollowedByCommaOrEnd(s, e) THEN e
             ELSE 0

\* (?:Suite|...|Building)[.\s:]+[A-Za-z0-9-]+ at position p: the position after it, or 0
LabelUnitEnd(s, p) ==
    LET ends == { LET a == p + Len(UnitLabels[i])
                      b == SkipWhile(s, a, "sep")
                      c == SkipWhile(s, b, "value")
                  IN  IF LabelAt(s, p, UnitLabels[i]) /\ b > a /\ c > b
                         /\ FollowedByCommaOrEnd(s, c)
                      THEN c ELSE 0
                  : i \in 1..Len(UnitLabels) } \ {0}
    IN  IF ends = {} THEN 0 ELSE CHOOSE e \in ends : TRUE

\* UNIT_PATTERNS.match(s, p): the position after the match, or 0
UnitMatchEnd(s, p) ==
    LET q == SkipWhile(s, p, "space")
        h == HashUnitEnd(s, q)
    IN  IF h # 0 THEN h ELSE LabelUnitEnd(s, q)

\* UNIT_PATTERNS.search(s) is not None
HasUnit(s) == \E p \in 1..Len(s) : UnitMatchEnd(s, p) # 0

\* UNIT_PATTERNS.sub("", s) from position p on: one left-to-right pass over
\* the non-overlapping matches; the text after a match is scanned from its end
RECURSIVE SubUnits(_, _)
SubUnits(s, p) ==
    IF p > Len(s) THEN <<>>
    ELSE LET e == UnitMatchEnd(s, p)
         IN  IF e # 0 THEN SubUnits(s, e) ELSE <<s[p]>> \o SubUnits(s, p + 1)

\* str.strip()
RECURSIVE LStrip(_)
LStrip(s) == IF s # <<>> /\ IsSpace(Head(s)) THEN LStrip(Tail(s)) ELSE s
RECURSIVE RStrip(_)
RStrip(s) ==
    IF s # <<>> /\ IsSpace(s[Len(s)]) THEN RStrip(SubSeq(s, 1, Len(s) - 1)) ELSE s
Strip(s) == LStrip(RStrip(s))
\* str.rstrip(",")
RECURSIVE RStripComma(_)
RStripComma(s) ==
    IF s # <<>> /\ s[Len(s)] = "," THEN RStripComma(SubSeq(s, 1, Len(s) - 1)) ELSE s

strip_unit(addr) == RStripComma(Strip(SubUnits(addr, 1)))

(***************************************************************************)
(* GeoMath: haversine and cardinal_direction on the coordinate grid.       *)
(***************************************************************************)
\* the coordinates (tenths of a degree) a latitude or a longitude takes
Tenths == 0..2

Abs(x) == IF x < 0 THEN -x ELSE x

\* str(float) of a coordinate: 1 -> "0.1", 10 -> "1.0"
FloatStr(x) ==
    (IF x < 0 THEN "-" ELSE "") \o ToString(Abs(x) \div 10) \o "." \o ToString(Abs(x) % 10)

\* float(text): the coordinate a field's text parses to; the texts float()
\* accepts are those str(float) produces and the integer "0"
IsFloatText(tok) == tok = "0" \/ \E v \in Tenths : FloatStr(v) = tok
FloatOf(tok) == IF tok = "0" THEN 0 ELSE CHOOSE v \in Tenths : FloatStr(v) = tok

\* round(R * c, 2) * 100 for two grid points dlat and dlon tenths of a degree
\* apart, with R = 3958.8: the values haversine() returns on this grid, where
\* cos(lat) rounds away (6.91 miles for 0.1 degrees along either axis)
HaversineTable ==
    [d \in (0..2) \X (0..2) |->
        CASE d = <<0, 0>> -> 0
          [] d \in {<<0, 1>>, <<1, 0>>} -> 691
          [] d = <<1, 1>> -> 977
          [] d \in {<<0, 2>>, <<2, 0>>} -> 1382
          [] d \in {<<1, 2>>, <<2, 1>>} -> 1545
          [] d = <<2, 2>> -> 1954]

haversine(lat1, lon1, lat2, lon2) == HaversineTable[<<Abs(lat2 - lat1), Abs(lon2 - lon1)>>]

\* round(angle / 45) for the angle atan2(a, b) of the first quadrant (a east,
\* b north, both >= 0): below 22.5 degrees iff (a+b)^2 < 2b^2, above 67.5
\* degrees iff (a+b)^2 < 2a^2; atan2(0, 0) = 0
OctantOf(a, b) ==
    IF a = 0 THEN 0
    ELSE IF (a + b) * (a + b) < 2 * b * b THEN 0
    ELSE IF (a + b) * (a + b) < 2 * a * a THEN 2
    ELSE 1

Directions == <<"N", "NE", "E", "SE", "S", "SW", "W", "NW">>

cardinal_direction(lat1, lon1, lat2, lon2) ==
    LET dlat == lat2 - lat1
        dlon == lon2 - lon1
        q == OctantOf(Abs(dlon), Abs(dlat))
        east == IF dlat >= 0 THEN q ELSE 4 - q
        index == IF dlon >= 0 THEN east ELSE (8 - east) % 8
    IN  Directions[index + 1]

(***************************************************************************)
(* SourceAdapters: what each provider answers and what the adapter makes   *)
(* of it.                                                                  *)
(***************************************************************************)
RawRecord(name, rid, lat, lon, source) ==
    [name |-> name, registry_id |-> rid, latitude |-> lat, longitude |-> lon,
     source |-> source]

\* dict.get(key, default) on a JSON object modelled as a function on its keys
Get(row, key, default) == IF key \in DOMAIN row THEN row[key] ELSE default

\* fetch_epa_echo, one row of the response: <<record>>, or <<>> when the row
\* is skipped ((0,0) coordinates, or float() raising ValueError / TypeError)
EchoRecord(row) ==
    LET lat_text == Get(row, "Lat83", Get(row, "FacLat", "0"))
        lon_text == Get(row, "Long83", Get(row, "FacLong", "0"))
    IN  IF ~(IsFloatText(lat_text) /\ IsFloatText(lon_text)) THEN <<>>
        ELSE IF FloatOf(lat_text) = 0 /\ FloatOf(lon_text) = 0 THEN <<>>
        ELSE << RawRecord(Get(row, "FacName", Get(row, "Name", "Unknown Facility")),
                          Get(row, "RegistryID", Get(row, "FacId", "N/A")),
                          FloatOf(lat_text), FloatOf(lon_text), "EPA_ECHO") >>

RECURSIVE EchoRecords(_)
EchoRecords(rows) ==
    IF rows = <<>> THEN <<>> ELSE EchoRecord(Head(rows)) \o EchoRecords(Tail(rows))

\* the except clause of fetch_epa_echo's try block: (httpx.HTTPError, Exception)
\* catches whatever client.get, raise_for_status and resp.json raise
EchoRequestFails(kind) == kind \in {"timeout", "transport_error", "http_status", "invalid_json"}

\* fetch_epa_echo: the task's state and the list it returns.  A body that is
\* valid JSON but no object ("json_not_object": a list, a string, null) passes
\* the try block, and data.get(...) then raises AttributeError outside of it.
fetch_epa_echo(kind, rows) ==
    IF EchoRequestFails(kind) THEN [state |-> "done", results |-> <<>>]
    ELSE IF kind = "json_not_object" THEN [state |-> "raised", results |-> <<>>]
    ELSE [state |-> "done", results |-> EchoRecords(rows)]

\* str.strip() of a field of a USGS row
StripField(tok) == IF tok = " " THEN "" ELSE tok

\* line.startswith("#"), decided by the line's first field
IsCommentLine(parts) == parts[1] \in {"#", "# retrieved"}

\* re.match(r"^\d+[sdna]$", tok)
IsTypeCode(tok) == tok \in {"5s", "15s", "16n", "10d", "3a"}

\* all(re.match(...) for p in parts if p.strip())
IsTypeRow(parts) ==
    \A i \in 1..Len(parts) :
        StripField(parts[i]) # "" => IsTypeCode(StripField(parts[i]))

\* fetch_usgs, one data row: <<record>>, or <<>> when the row is discarded
\* (fewer than 5 fields, float() raising ValueError, (0,0) coordinates)
SiteRecord(parts) ==
    IF Len(parts) < 5 THEN <<>>
    ELSE IF ~IsFloatText(StripField(parts[5])) THEN <<>>
    ELSE IF Len(parts) > 5 /\ ~IsFloatText(StripField(parts[6])) THEN <<>>
    ELSE LET site_lat == FloatOf(StripField(parts[5]))
             site_lon == IF Len(parts) > 5 THEN FloatOf(StripField(parts[6])) ELSE 0
         IN  IF site_lat = 0 /\ site_lon = 0 THEN <<>>
             ELSE << RawRecord(StripField(parts[3]), StripField(parts[2]),
                               site_lat, site_lon, "USGS") >>

\* ParseRdb with a fault: header_seen is never set, so every line that is no
\* comment is skipped as the header
RECURSIVE ParseRdbFlagNeverSet(_, _)
ParseRdbFlagNeverSet(lines, header_seen) ==
    IF lines = <<>> THEN <<>>
    ELSE LET parts == Head(lines)
             rest == Tail(lines)
         IN  IF IsCommentLine(parts) THEN ParseRdbFlagNeverSet(rest, header_seen)
             ELSE IF ~header_seen THEN ParseRdbFlagNeverSet(rest, header_seen)
             ELSE IF IsTypeRow(parts) THEN ParseRdbFlagNeverSet(rest, header_seen)
             ELSE SiteRecord(parts) \o ParseRdbFlagNeverSet(rest, header_seen)

\* the loop of fetch_usgs over text.splitlines()
RECURSIVE ParseRdb(_, _)
ParseRdb(lines, header_seen) ==
    IF lines = <<>> THEN <<>>
    ELSE LET parts == Head(lines)
             rest == Tail(lines)
         IN  IF IsCommentLine(parts) THEN ParseRdb(rest, header_seen)
             ELSE IF ~header_seen THEN ParseRdb(rest, TRUE)
             ELSE IF IsTypeRow(parts) THEN ParseRdb(rest, header_seen)
             ELSE SiteRecord(parts) \o ParseRdb(rest, header_seen)

\* the except clause of fetch_usgs's try block
RdbRequestFails(kind) == kind \in {"timeout", "transport_error", "http_status"}

\* fetch_usgs: the task's state and the list it returns
fetch_usgs(kind, lines) ==
    IF RdbRequestFails(kind) THEN [state |-> "done", results |-> <<>>]
    ELSE [state |-> "done", results |-> ParseRdb(lines, FALSE)]

(***************************************************************************)
(* Aggregator: step 3 of report().                                         *)
(***************************************************************************)
\* the f-string key of the merge loop
DedupKey(raw) ==
    IF raw.registry_id # "" /\ raw.registry_id # "N/A"
    THEN raw.registry_id \o "|" \o raw.source
    ELSE raw.name \o "|" \o FloatStr(raw.latitude) \o "|" \o FloatStr(raw.longitude)
         \o "|" \o raw.source

Facility(raw, dist, direction) ==
    [name |-> raw.name, registry_id |-> raw.registry_id, latitude |-> raw.latitude,
     longitude |-> raw.longitude, distance_miles |-> dist, direction |-> direction,
     source |-> raw.source]

\* the raw record a facility was built from
RawOf(f) == RawRecord(f.name, f.registry_id, f.latitude, f.longitude, f.source)

\* MergeStep with a fault: the radius is checked before the key is looked up
\* and registered (filter, then dedupe)
MergeStepFilterFirst(raw, lat, lon, radius, acc) ==
    LET key == DedupKey(raw)
        dist == haversine(lat, lon, raw.latitude, raw.longitude)
    IN  IF dist > radius THEN acc
        ELSE IF key \in acc.seen THEN acc
        ELSE [seen |-> acc.seen \cup {key},
              facilities |-> Append(acc.facilities,
                  Facility(raw, dist,
                           cardinal_direction(lat, lon, raw.latitude, raw.longitude)))]

\* MergeStep with a fault: the distance is compared with the largest radius a
\* request may ask for instead of the radius it asked for
MergeStepMaxRadius(raw, lat, lon, radius, acc) ==
    LET key == DedupKey(raw)
        dist == haversine(lat, lon, raw.latitude, raw.longitude)
    IN  IF key \in acc.seen THEN acc
        ELSE IF dist > MaxRadius THEN [acc EXCEPT !.seen = acc.seen \cup {key}]
        ELSE [seen |-> acc.seen \cup {key},
              facilities |-> Append(acc.facilities,
                  Facility(raw, dist,
                           cardinal_direction(lat, lon, raw.latitude, raw.longitude)))]

\* one iteration of "for raw in all_raw", on acc = [seen, facilities]
MergeStep(raw, lat, lon, radius, acc) ==
    LET key == DedupKey(raw)
        dist == haversine(lat, lon, raw.latitude, raw.longitude)
    IN  IF key \in acc.seen THEN acc
        ELSE IF dist > radius THEN [acc EXCEPT !.seen = acc.seen \cup {key}]
        ELSE [seen |-> acc.seen \cup {key},
              facilities |-> Append(acc.facilities,
                  Facility(raw, dist,
                           cardinal_direction(lat, lon, raw.latitude, raw.longitude)))]

RECURSIVE MergeLoop(_, _, _, _, _)
MergeLoop(raws, lat, lon, radius, acc) ==
    IF raws = <<>> THEN acc
    ELSE MergeLoop(Tail(raws), lat, lon, radius, MergeStep(Head(raws), lat, lon, radius, acc))

\* f put into a list sorted by distance_miles, after every facility that is
\* not farther than f (list.sort is stable)
RECURSIVE InsertByDistance(_, _)
InsertByDistance(sorted, f) ==
    IF sorted = <<>> THEN <<f>>
    ELSE IF Head(sorted).distance_miles <= f.distance_miles
         THEN <<Head(sorted)>> \o InsertByDistance(Tail(sorted), f)
         ELSE <<f>> \o sorted

RECURSIVE SortFrom(_, _)
SortFrom(sorted, facs) ==
    IF facs = <<>> THEN sorted
    ELSE SortFrom(InsertByDistance(sorted, Head(facs)), Tail(facs))

\* SortByDistance with a fault: a sort that is not stable (a facility goes
\* before the facilities at the same distance)
RECURSIVE InsertBeforeEqual(_, _)
InsertBeforeEqual(sorted, f) ==
    IF sorted = <<>> THEN <<f>>
    ELSE IF Head(sorted).distance_miles < f.distance_miles
         THEN <<Head(sorted)>> \o InsertBeforeEqual(Tail(sorted), f)
         ELSE <<f>> \o sorted
RECURSIVE SortFromUnstable(_, _)
SortFromUnstable(sorted, facs) ==
    IF facs = <<>> THEN sorted
    ELSE SortFromUnstable(InsertBeforeEqual(sorted, Head(facs)), Tail(facs))
SortByDistanceUnstable(facs) == SortFromUnstable(<<>>, facs)

\* facilities.sort(key=lambda f: f.distance_miles)
SortByDistance(facs) == SortFrom(<<>>, facs)

\* Gather with a fault: the results in the order the fetches completed
GatherCompletionOrder(epa, usgs, first) == IF first = "usgs" THEN usgs \o epa ELSE epa \o usgs

\* epa_results, usgs_results = await asyncio.gather(epa_task, usgs_task),
\* then all_raw = epa_results + usgs_results: gather returns the results in
\* the order of its arguments, whichever task completed first
Gather(epa, usgs, first) == epa \o usgs

(***************************************************************************)
(* GeocodeClient: the provider's answer and the handlers' except clauses.  *)
(***************************************************************************)
\* the classes an exception of class cls is an instance of
ExcBases(cls) ==
    CASE cls = "ReadTimeout" ->
            {"ReadTimeout", "TimeoutException", "TransportError", "RequestError",
             "HTTPError", "Exception"}
      [] cls = "ConnectError" ->
            {"ConnectError", "TransportError", "RequestError", "HTTPError", "Exception"}
      [] cls = "HTTPStatusError" -> {"HTTPStatusError", "HTTPError", "Exception"}
      [] cls = "JSONDecodeError" -> {"JSONDecodeError", "ValueError", "Exception"}
      [] cls = "HTTPException" -> {"HTTPException", "Exception"}

\* what geocode_address raises, as [cls, status], or NoExc
NoExc == [cls |-> "none", status |-> "ok"]
GeocodeRaises(kind, hits) ==
    CASE kind = "timeout" -> [cls |-> "ReadTimeout", status |-> "500"]
      [] kind = "transport_error" -> [cls |-> "ConnectError", status |-> "500"]
      [] kind = "http_status" -> [cls |-> "HTTPStatusError", status |-> "500"]
      [] kind = "invalid_json" -> [cls |-> "JSONDecodeError", status |-> "500"]
      [] kind = "ok" /\ hits = <<>> -> [cls |-> "HTTPException", status |-> "404"]
      [] OTHER -> NoExc

\* ExceptClauses with a fault: the clause for httpx.HTTPError before the
\* clause for httpx.TimeoutException
ExceptClausesHTTPErrorFirst ==
    << [cls |-> "HTTPException", status |-> "reraise"],
       [cls |-> "HTTPError", status |-> "502"],
       [cls |-> "TimeoutException", status |-> "504"] >>

\* the except clauses of geocode() and of report(), in order
ExceptClauses ==
    << [cls |-> "HTTPException", status |-> "reraise"],
       [cls |-> "TimeoutException", status |-> "504"],
       [cls |-> "HTTPError", status |-> "502"] >>

\* the status the request ends with when exc is raised inside the try block:
\* the first clause exc is an instance of decides; an exception no clause
\* catches leaves the handler (500)
HandlerStatus(exc) ==
    LET hits == {i \in 1..Len(ExceptClauses) : ExceptClauses[i].cls \in ExcBases(exc.cls)}
    IN  IF hits = {} THEN "500"
        ELSE LET first == CHOOSE i \in hits : \A j \in hits : i <= j
             IN  IF ExceptClauses[first].status = "reraise" THEN exc.status
                 ELSE ExceptClauses[first].status

\* GeocodeNextPc with a fault: report() goes on to the fan-out whatever the
\* geocoding step ended with
GeocodeNextPcIgnoringFailure(ep, status) == IF ep = "report" THEN "fan_out" ELSE "done"

\* where the handler goes after the geocoding step: an exception ends the
\* request; geocode() returns; report() goes on to the fan-out
GeocodeNextPc(ep, status) == IF status = "ok" /\ ep = "report" THEN "fan_out" ELSE "done"

\* geo before geocoding has succeeded
NoGeo == <<>>

\* the handler's locals before the handler has set them
HandlerIdle ==
    /\ provider_called = FALSE
    /\ geo_kind = "none"
    /\ geo_hits = <<>>
    /\ geo = NoGeo
    /\ outcome = "none"
    /\ epa_state = "idle"
    /\ usgs_state = "idle"
    /\ epa_args = <<>>
    /\ usgs_args = <<>>
    /\ epa_kind = "none"
    /\ usgs_kind = "none"
    /\ epa_results = <<>>
    /\ usgs_results = <<>>
    /\ first_done = "none"
    /\ all_raw = <<>>
    /\ seen_ids = {}
    /\ facilities = <<>>
    /\ total_findings = 0

(***************************************************************************)
(* SpecNorm: strip_unit on every address of at most MaxLen characters.     *)
(***************************************************************************)
InitNorm ==
    /\ pc = "strip_unit"
    /\ endpoint = "geocode"
    /\ address \in SeqsUpTo(Alphabet, MaxLen)
    /\ radius_miles = 0
    /\ cleaned = <<>>
    /\ text = <<>>
    /\ HandlerIdle

NormalizeAddress ==
    /\ pc = "strip_unit"
    /\ cleaned' = strip_unit(address)
    /\ pc' = "stripped"
    /\ UNCHANGED <<endpoint, address, radius_miles, provider_called, geo_kind, geo_hits, geo,
                   outcome, epa_state, usgs_state, epa_args, usgs_args, epa_kind,
                   usgs_kind, epa_results, usgs_results, first_done, all_raw,
                   seen_ids, facilities, total_findings, text>>

NextNorm == NormalizeAddress

SpecNorm == InitNorm /\ [][NextNorm]_vars

(***************************************************************************)
(* Spec: one request to POST /geocode or POST /report.                     *)
(***************************************************************************)
\* the addresses of the requests: empty, blank, a unit alone, a unit between
\* commas, a street followed by a unit
Addresses ==
    { <<>>, <<" ">>, <<"#", "1">>, <<",", "F", "l", " ", "1", ",">>,
      <<"1", " ", "F", " ", "#", "1", " ">> }
\* the radii of the requests (0 and 5001 are rejected by the schema)
RadiusInputs == {0, 700, 1000, 5001}
\* the coordinates the geocoding provider answers with
Centers == {<<0, 0>>, <<1, 1>>}
\* the coordinates of the facilities and sites the providers answer with
Points == {<<0, 1>>, <<1, 0>>, <<0, 2>>}

\* what a provider answers: no answer in time, no connection, a status that
\* raise_for_status rejects, a body that is no JSON, a JSON body that is no
\* object, or a well-formed answer
GeoKinds == {"timeout", "transport_error", "http_status", "invalid_json", "ok"}
EchoKinds == {"timeout", "transport_error", "invalid_json", "json_not_object", "ok"}
RdbKinds == {"timeout", "transport_error", "ok"}

\* rows of an ECHO response: without a registry id (the adapter fills in
\* "N/A"), with one, with one that reads like a name-and-coordinates key, one
\* in the other key naming scheme, one without coordinates, one whose
\* latitude is no number
EchoRows ==
    {[FacName |-> "a", Lat83 |-> "0.0", Long83 |-> "0.1"],
     [FacName |-> "a", Lat83 |-> "0.1", Long83 |-> "0.0"],
     [FacName |-> "b", Lat83 |-> "0.0", Long83 |-> "0.1"]}
    \cup {[FacName |-> "a", RegistryID |-> "r1", Lat83 |-> FloatStr(p[1]),
           Long83 |-> FloatStr(p[2])] : p \in Points}
    \cup {[FacName |-> "b", RegistryID |-> "a|0.0|0.1", Lat83 |-> "0.1", Long83 |-> "0.0"],
          [Name |-> "a", FacId |-> "r1", FacLat |-> "0.1", FacLong |-> "0.0"],
          [FacName |-> "a", RegistryID |-> "r1"],
          [FacName |-> "a", RegistryID |-> "r1", Lat83 |-> "unknown", Long83 |-> "0.1"]}

CommentLine == <<"# retrieved">>
HeaderLine == <<"agency_cd", "site_no", "station_nm", "site_tp_cd", "dec_lat_va", "dec_long_va">>
TypeLine == <<"5s", "15s", "16n", "5s", "16n", "16n">>

\* data rows of a USGS response: with and without a site number, one too
\* short, one at (0,0)
RdbRows ==
    {<<"USGS", "0101", "a", "ST", FloatStr(p[1]), FloatStr(p[2])>> : p \in Points}
    \cup {<<"USGS", "", "a", "ST", "0.0", "0.1">>, <<"USGS", " ", "a", "ST", "0.1", "0.0">>,
          <<"USGS", "0101", "a", "ST">>, <<"USGS", "0101", "a", "ST", "0.0", "0.0">>}

Init ==
    /\ pc = "validate"
    /\ endpoint \in {"geocode", "report"}
    /\ address \in Addresses
    /\ radius_miles \in (IF endpoint = "report" THEN RadiusInputs ELSE {0})
    /\ cleaned = <<>>
    /\ text = <<>>
    /\ HandlerIdle

\* the request schemas: address of at least one character and not blank,
\* stripped; radius_miles in (0, 50]
ValidateRequest ==
    /\ pc = "validate"
    /\ IF \/ address = <<>>
          \/ Strip(address) = <<>>
          \/ endpoint = "report" /\ ~(radius_miles > 0 /\ radius_miles <= MaxRadius)
       THEN /\ outcome' = "422"
            /\ pc' = "done"
            /\ UNCHANGED address
       ELSE /\ address' = Strip(address)
            /\ pc' = "geocode"
            /\ UNCHANGED outcome
    /\ UNCHANGED <<endpoint, radius_miles, cleaned, provider_called, geo_kind, geo_hits,
                   geo, epa_state, usgs_state, epa_args, usgs_args, epa_kind, usgs_kind,
                   epa_results, usgs_results, first_done, all_raw, seen_ids, facilities,
                   total_findings, text>>

\* geocode_address up to "await client.get(...)"
GeocodeRequest ==
    /\ pc = "geocode"
    /\ cleaned' = strip_unit(address)
    /\ IF cleaned' = <<>>
       THEN /\ outcome' = HandlerStatus([cls |-> "HTTPException", status |-> "400"])
            /\ pc' = "done"
            /\ UNCHANGED provider_called
       ELSE /\ provider_called' = TRUE
            /\ pc' = "geocode_wait"
            /\ UNCHANGED outcome
    /\ UNCHANGED <<endpoint, address, radius_miles, geo_kind, geo_hits, geo, epa_state,
                   usgs_state, epa_args, usgs_args, epa_kind, usgs_kind, epa_results,
                   usgs_results, first_done, all_raw, seen_ids, facilities,
                   total_findings, text>>

\* the provider answers: the rest of geocode_address and the except clauses
\* of the handler
GeocodeResponse ==
    /\ pc = "geocode_wait"
    /\ \E kind \in GeoKinds :
       \E hits \in (IF kind = "ok" THEN SeqsUpTo(Centers, MaxHits) ELSE {<<>>}) :
          LET exc == GeocodeRaises(kind, hits)
              status == IF exc = NoExc THEN "ok" ELSE HandlerStatus(exc)
          IN  /\ geo_kind' = kind
              /\ geo_hits' = hits
              /\ geo' = IF exc = NoExc THEN hits[1] ELSE NoGeo
              /\ outcome' = IF status # "ok" THEN status
                            ELSE IF endpoint = "geocode" THEN "geocoded" ELSE "none"
              /\ pc' = GeocodeNextPc(endpoint, status)
    /\ UNCHANGED <<endpoint, address, radius_miles, cleaned, provider_called, epa_state,
                   usgs_state, epa_args, usgs_args, epa_kind, usgs_kind, epa_results,
                   usgs_results, first_done, all_raw, seen_ids, facilities,
                   total_findings, text>>

\* report(), step 2: both coroutines are created with (lat, lon, radius) and
\* handed to asyncio.gather
FanOut ==
    /\ pc = "fan_out"
    /\ epa_state' = "waiting"
    /\ usgs_state' = "waiting"
    /\ epa_args' = <<geo, radius_miles>>
    /\ usgs_args' = <<geo, radius_miles>>
    /\ geo_hits' = <<>>
    /\ pc' = "gather"
    /\ UNCHANGED <<endpoint, address, radius_miles, cleaned, provider_called, geo_kind,
                   geo, outcome, epa_kind, usgs_kind, epa_results, usgs_results,
                   first_done, all_raw, seen_ids, facilities, total_findings, text>>

\* the ECHO provider answers and fetch_epa_echo runs to its end
EpaComplete ==
    /\ pc = "gather"
    /\ epa_state = "waiting"
    /\ \E kind \in EchoKinds :
       \E rows \in (IF kind = "ok" THEN SeqsUpTo(EchoRows, MaxRaw - Len(usgs_results))
                    ELSE {<<>>}) :
          LET r == fetch_epa_echo(kind, rows)
          IN  /\ epa_kind' = kind
              /\ epa_state' = r.state
              /\ epa_results' = r.results
    /\ first_done' = IF first_done = "none" THEN "epa" ELSE first_done
    /\ UNCHANGED <<pc, endpoint, address, radius_miles, cleaned, provider_called, geo_kind,
                   geo_hits, geo, outcome, usgs_state, epa_args, usgs_args, usgs_kind,
                   usgs_results, all_raw, seen_ids, facilities, total_findings, text>>

\* the USGS provider answers and fetch_usgs runs to its end
UsgsComplete ==
    /\ pc = "gather"
    /\ usgs_state = "waiting"
    /\ \E kind \in RdbKinds :
       \E lines \in (IF kind = "ok"
                     THEN {<<>>} \cup {<<CommentLine, HeaderLine, TypeLine>> \o rows :
                                        rows \in SeqsUpTo(RdbRows, MaxRaw - Len(epa_results))}
                     ELSE {<<>>}) :
          LET r == fetch_usgs(kind, lines)
          IN  /\ usgs_kind' = kind
              /\ usgs_state' = r.state
              /\ usgs_results' = r.results
    /\ first_done' = IF first_done = "none" THEN "usgs" ELSE first_done
    /\ UNCHANGED <<pc, endpoint, address, radius_miles, cleaned, provider_called, geo_kind,
                   geo_hits, geo, outcome, epa_state, epa_args, usgs_args, epa_kind,
                   epa_results, all_raw, seen_ids, facilities, total_findings, text>>

\* asyncio.gather re-raises the first exception of a task; report() has no
\* handler around the gather, so the request ends in a 500
GatherRaise ==
    /\ pc = "gather"
    /\ epa_state = "raised" \/ usgs_state = "raised"
    /\ outcome' = "500"
    /\ pc' = "done"
    /\ UNCHANGED <<endpoint, address, radius_miles, cleaned, provider_called, geo_kind,
                   geo_hits, geo, epa_state, usgs_state, epa_args, usgs_args, epa_kind,
                   usgs_kind, epa_results, usgs_results, first_done, all_raw, seen_ids,
                   facilities, total_findings, text>>

\* report(), step 3, once both tasks have returned: merge, sort, respond
Merge ==
    /\ pc = "gather"
    /\ epa_state = "done"
    /\ usgs_state = "done"
    /\ LET raws == Gather(epa_results, usgs_results, first_done)
           acc == MergeLoop(raws, geo[1], geo[2], radius_miles,
                            [seen |-> {}, facilities |-> <<>>])
           sorted == SortByDistance(acc.facilities)
       IN  /\ all_raw' = raws
           /\ seen_ids' = acc.seen
           /\ facilities' = sorted
           /\ total_findings' = Len(sorted)
    /\ outcome' = "report"
    /\ pc' = "done"
    /\ UNCHANGED <<endpoint, address, radius_miles, cleaned, provider_called, geo_kind,
                   geo_hits, geo, epa_state, usgs_state, epa_args, usgs_args, epa_kind,
                   usgs_kind, epa_results, usgs_results, first_done, text>>

Next ==
    \/ ValidateRequest
    \/ GeocodeRequest
    \/ GeocodeResponse
    \/ FanOut
    \/ EpaComplete
    \/ UsgsComplete
    \/ GatherRaise
    \/ Merge

Spec == Init /\ [][Next]_vars

(***************************************************************************)
(* SpecParse: fetch_usgs on every response text of at most MaxLines lines. *)
(***************************************************************************)
\* the lines of the texts: a comment, a header, type rows, a blank line, and
\* data rows of 6, 5 and 4 fields whose coordinates are numbers, zero or no
\* numbers
RdbLines ==
    {CommentLine, HeaderLine, TypeLine, <<"">>, <<"5s", " ", "15s">>}
    \cup {<<"USGS", "0101", n, "ST", lat, lon>> :
            n \in {"a", "b"}, lat \in {"0.0", "0.1", "unknown"}, lon \in {"0.0", "0.2"}}
    \cup {<<"USGS", "0101", "a", "ST", lat>> : lat \in {"0", "0.1"}}
    \cup {<<"USGS", "0101", "a", "ST">>}

InitParse ==
    /\ pc = "fetch_usgs"
    /\ endpoint = "report"
    /\ address = <<>>
    /\ radius_miles = 0
    /\ cleaned = <<>>
    /\ text \in SeqsUpTo(RdbLines, MaxLines)
    /\ HandlerIdle

\* fetch_usgs on a response whose body is text
ParseText ==
    /\ pc = "fetch_usgs"
    /\ LET r == fetch_usgs("ok", text)
       IN  /\ usgs_kind' = "ok"
           /\ usgs_state' = r.state
           /\ usgs_results' = r.results
    /\ pc' = "fetched"
    /\ UNCHANGED <<endpoint, address, radius_miles, cleaned, provider_called, geo_kind,
                   geo_hits, geo, outcome, epa_state, epa_args, usgs_args, epa_kind,
                   epa_results, first_done, all_raw, seen_ids, facilities,
                   total_findings, text>>

NextParse == ParseText

SpecParse == InitParse /\ [][NextParse]_vars

(***************************************************************************)
(* Properties of SpecNorm and SpecParse.                                   *)
(***************************************************************************)
\* C6: the result of strip_unit holds no unit qualifier before a comma or
\* the end of the string.
C6_NoUnitLeft == pc = "stripped" => ~HasUnit(cleaned)

\* the lines of the text that are no comments, but for the first (the header)
RowsAfterHeader ==
    LET rows == SelectSeq(text, LAMBDA l : ~IsCommentLine(l))
    IN  IF rows = <<>> THEN <<>> ELSE Tail(rows)

\* the rows after the header, but for the first type row among them: the
\* data rows
DataRows ==
    LET rows == RowsAfterHeader
        types == {i \in 1..Len(rows) : IsTypeRow(rows[i])}
    IN  IF types = {} THEN rows
        ELSE LET t == CHOOSE i \in types : \A j \in types : i <= j
             IN  SubSeq(rows, 1, t - 1) \o SubSeq(rows, t + 1, Len(rows))

\* the text of the longitude field of a row of at least 5 fields ("0" when
\* the row has no sixth field)
LonText(parts) == IF Len(parts) > 5 THEN StripField(parts[6]) ELSE "0"

\* a row's coordinates are (0,0)
AtOrigin(parts) ==
    /\ IsFloatText(StripField(parts[5])) /\ FloatOf(StripField(parts[5])) = 0
    /\ IsFloatText(LonText(parts)) /\ FloatOf(LonText(parts)) = 0

\* a row's coordinates are numbers
HasCoordinates(parts) == IsFloatText(StripField(parts[5])) /\ IsFloatText(LonText(parts))

\* the record of a data row
SiteOf(parts) ==
    [name |-> StripField(parts[3]), registry_id |-> StripField(parts[2]),
     latitude |-> FloatOf(StripField(parts[5])), longitude |-> FloatOf(LonText(parts)),
     source |-> "USGS"]

RECURSIVE SitesOf(_)
SitesOf(rows) ==
    IF rows = <<>> THEN <<>>
    ELSE (IF Len(Head(rows)) >= 5 /\ HasCoordinates(Head(rows)) /\ ~AtOrigin(Head(rows))
          THEN <<SiteOf(Head(rows))>> ELSE <<>>) \o SitesOf(Tail(rows))

\* C10 as stated: every data row yields one record unless it has fewer than
\* 5 fields or (0,0) coordinates.
C10_RecordPerDataRow ==
    pc = "fetched" =>
        Len(usgs_results) =
            Len(SelectSeq(DataRows, LAMBDA parts : Len(parts) >= 5 /\ ~AtOrigin(parts)))

\* C10, amended: comments, the header and at most one type row are skipped,
\* and every data row yields one record, in input order, unless it has fewer
\* than 5 fields, a coordinate that is no number, or (0,0) coordinates.
C10_RecordPerParsableRow == pc = "fetched" => usgs_results = SitesOf(DataRows)

\* C10 happens: a text with a header, a data row whose coordinate is no
\* number and a data row that yields a record.
C10_Witness ==
    /\ pc = "fetched"
    /\ usgs_results # <<>>
    /\ \E i \in 1..Len(DataRows) : Len(DataRows[i]) >= 5 /\ ~HasCoordinates(DataRows[i])

(***************************************************************************)
(* Properties of Spec.                                                     *)
(***************************************************************************)
InRadius(raw) == haversine(geo[1], geo[2], raw.latitude, raw.longitude) <= radius_miles

\* the raw records the facilities of the report were built from
FacilityRaws == {RawOf(facilities[i]) : i \in 1..Len(facilities)}

\* C1: every facility of a report lies within the requested radius, at the
\* distance haversine gives for it from the geocoded center.
C1_WithinRadius ==
    outcome = "report" =>
        \A i \in 1..Len(facilities) :
            /\ facilities[i].distance_miles <= radius_miles
            /\ facilities[i].distance_miles =
                   haversine(geo[1], geo[2], facilities[i].latitude, facilities[i].longitude)

\* C1 happens: a report with a facility in it, built from adapter results
\* of which one lies outside the radius.
C1_Witness ==
    /\ outcome = "report"
    /\ facilities # <<>>
    /\ \E i \in 1..Len(all_raw) : ~InRadius(all_raw[i])

\* the answers of a provider that are failures: transport error, timeout,
\* malformed response
AdapterFailures == {"timeout", "transport_error", "http_status", "invalid_json", "json_not_object"}

\* C2: a failure of either adapter's provider gives that adapter an empty
\* result and never fails the request: after the fan-out the request ends in
\* a report, which holds only the other adapter's findings.
C2_FailuresAbsorbed ==
    /\ epa_kind \in AdapterFailures => epa_state = "done" /\ epa_results = <<>>
    /\ usgs_kind \in AdapterFailures => usgs_state = "done" /\ usgs_results = <<>>
    /\ pc = "done" /\ epa_state # "idle" => outcome = "report"
    /\ outcome = "report" /\ epa_kind \in AdapterFailures =>
           /\ \A i \in 1..Len(facilities) : facilities[i].source = "USGS"
           /\ all_raw = usgs_results
    /\ outcome = "report" /\ usgs_kind \in AdapterFailures =>
           /\ \A i \in 1..Len(facilities) : facilities[i].source = "EPA_ECHO"
           /\ all_raw = epa_results

\* the composite key as a tuple: (external_id, source_tag) when the id is
\* present and not "N/A", (name, latitude, longitude, source_tag) otherwise
TupleKey(raw) ==
    IF raw.registry_id # "" /\ raw.registry_id # "N/A"
    THEN [id |-> raw.registry_id, name |-> "", lat |-> 0, lon |-> 0, source |-> raw.source]
    ELSE [id |-> "", name |-> raw.name, lat |-> raw.latitude, lon |-> raw.longitude,
          source |-> raw.source]

\* the positions of all_raw that hold the first record with their tuple key
FirstOfTupleKey ==
    {i \in 1..Len(all_raw) :
        \A j \in 1..(i - 1) : TupleKey(all_raw[j]) # TupleKey(all_raw[i])}

\* C3: two raw records collapse iff they have the same composite key, and
\* the first in concatenation order is kept: the report's facilities are the
\* first records of each composite key, those within the radius.
C3_CollapseIffSameKey ==
    outcome = "report" =>
        /\ FacilityRaws = {all_raw[i] : i \in {j \in FirstOfTupleKey : InRadius(all_raw[j])}}
        /\ Cardinality(seen_ids) = Cardinality({TupleKey(all_raw[i]) : i \in 1..Len(all_raw)})

\* C4: an adapter is invoked only after geocoding has succeeded, and a
\* request that ends in a validation or geocoding error has invoked no
\* adapter and returns no report.
C4_GeocodeBeforeFanOut ==
    /\ epa_state # "idle" \/ usgs_state # "idle" \/ pc \in {"fan_out", "gather"} =>
           /\ provider_called
           /\ geo_kind = "ok"
           /\ geo \in Centers
           /\ outcome \in {"none", "report", "500"}
    /\ outcome \in {"422", "400", "404", "504", "502"} \/ (outcome = "500" /\ geo = NoGeo) =>
           /\ pc = "done"
           /\ epa_state = "idle" /\ usgs_state = "idle"
           /\ epa_args = <<>> /\ usgs_args = <<>>
           /\ facilities = <<>> /\ total_findings = 0

\* C4 happens: a report request whose geocoding found no match has ended.
C4_Witness ==
    /\ endpoint = "report"
    /\ geo_kind = "ok" /\ geo = NoGeo
    /\ outcome = "404"
    /\ pc = "done"

\* the least position of all_raw that holds raw
FirstIndex(raw) == CHOOSE i \in 1..Len(all_raw) :
                       all_raw[i] = raw /\ \A j \in 1..(i - 1) : all_raw[j] # raw

\* C5: the facilities are sorted non-decreasing by distance, facilities at
\* the same distance are in the order of the concatenation, and
\* total_findings is the length of the list.
C5_SortedStableCounted ==
    outcome = "report" =>
        /\ \A p, q \in 1..Len(facilities) :
               p < q => /\ facilities[p].distance_miles <= facilities[q].distance_miles
                        /\ facilities[p].distance_miles = facilities[q].distance_miles
                               => FirstIndex(RawOf(facilities[p])) < FirstIndex(RawOf(facilities[q]))
        /\ total_findings = Len(facilities)
        /\ FacilityRaws \subseteq {all_raw[i] : i \in 1..Len(all_raw)}

\* C5 happens: a report with two facilities at the same distance and a
\* facility that the sort moved in front of a farther one.
C5_Witness ==
    /\ outcome = "report"
    /\ \E p, q \in 1..Len(facilities) :
           p < q /\ facilities[p].distance_miles = facilities[q].distance_miles
    /\ \E p, q \in 1..Len(facilities) :
           /\ facilities[p].distance_miles < facilities[q].distance_miles
           /\ FirstIndex(RawOf(facilities[q])) < FirstIndex(RawOf(facilities[p]))

\* C7: the outcome of the geocoding step, by the provider's answer.
C7_GeocodeOutcome ==
    /\ geo_kind = "timeout" => outcome = "504"
    /\ geo_kind \in {"transport_error", "http_status"} => outcome = "502"
    /\ geo_kind = "ok" /\ geo = NoGeo => geo_hits = <<>> /\ outcome = "404"
    /\ geo_kind = "ok" /\ geo # NoGeo =>
           /\ outcome \in {"none", "geocoded", "report", "500"}
           /\ endpoint = "geocode" => outcome = "geocoded"
           /\ geo_hits # <<>> => geo = geo_hits[1]
    /\ geo_kind # "none" => provider_called /\ cleaned # <<>> /\ cleaned = strip_unit(address)
    /\ outcome = "400" => ~provider_called /\ geo_kind = "none" /\ strip_unit(address) = <<>>
    /\ pc \notin {"validate", "geocode"} /\ outcome # "422" /\ strip_unit(address) = <<>>
           => outcome = "400"
    /\ outcome \in {"404", "504", "502"} => geo_kind # "none"

\* C7 happens: the provider timed out and the request ended in 504.
C7_Witness == geo_kind = "timeout" /\ outcome = "504" /\ provider_called

\* C8: both adapters are called with the same center and radius, the merge
\* runs only when both have returned, and the report does not depend on
\* which returned first: EPA's records precede USGS's.
C8_JoinThenMerge ==
    /\ epa_state # "idle" \/ usgs_state # "idle" =>
           /\ epa_args = <<geo, radius_miles>>
           /\ usgs_args = epa_args
           /\ epa_state # "idle" /\ usgs_state # "idle"
    /\ outcome = "report" =>
           /\ epa_state = "done" /\ usgs_state = "done"
           /\ all_raw = epa_results \o usgs_results
           /\ facilities = SortByDistance(
                  MergeLoop(epa_results \o usgs_results, geo[1], geo[2], radius_miles,
                            [seen |-> {}, facilities |-> <<>>]).facilities)
    /\ outcome # "report" => all_raw = <<>> /\ facilities = <<>>

\* C8 happens: a report of a request whose USGS fetch returned first, both
\* with records.
C8_Witness ==
    /\ outcome = "report"
    /\ first_done = "usgs"
    /\ epa_results # <<>> /\ usgs_results # <<>>

\* the positions of all_raw that hold the first record with their dedup key
FirstOfKey ==
    {i \in 1..Len(all_raw) :
        \A j \in 1..(i - 1) : DedupKey(all_raw[j]) # DedupKey(all_raw[i])}

\* C9: the key of every record is registered, also that of a record
\* discarded for its distance, and the facilities are the first records of
\* each key, those within the radius: filter(dedupe), not dedupe(filter).
C9_DedupeThenFilter ==
    outcome = "report" =>
        /\ seen_ids = {DedupKey(all_raw[i]) : i \in 1..Len(all_raw)}
        /\ FacilityRaws = {all_raw[i] : i \in {j \in FirstOfKey : InRadius(all_raw[j])}}
        /\ Len(facilities) = Cardinality({j \in FirstOfKey : InRadius(all_raw[j])})

\* C9 happens: a report of records of which one within the radius was
\* dropped as the duplicate of an earlier one outside the radius.
C9_Witness ==
    /\ outcome = "report"
    /\ \E i, j \in 1..Len(all_raw) :
           /\ i < j
           /\ i \in FirstOfKey
           /\ DedupKey(all_raw[i]) = DedupKey(all_raw[j])
           /\ ~InRadius(all_raw[i])
           /\ InRadius(all_raw[j])
           /\ all_raw[j] \notin FacilityRaws

====
